---- MODULE Spec2Model ----
(***************************************************************************)
(* Model of the hydrogen-production calculators (hydro-requirement/       *)
(* hydrogen.py) and of the fuel-consumption report (calculate.py).        *)
(*                                                                         *)
(* The program computes in IEEE doubles; the model computes the same       *)
(* formulas in fixed point on integers:                                    *)
(*   temperatures           1/100 C                (800 C  = 80000)        *)
(*   molar energies         1/10000 kJ/mol         (225    = 2250000)      *)
(*   specific energies      1/10000 kWh/kg-H2      (60     = 600000)       *)
(*   efficiency, gamma      1/1000000              (0.68   = 680000)       *)
(*   thermal power          MW, production rate    kg/h                    *)
(*   pressure               a power of ten, given by its exponent          *)
(*                          (p = 2 is 100 atm), so that ln is exact up to  *)
(*                          the rounding of ln 10                          *)
(*   fuel quantities        1/1000 gallon                                  *)
(* Quotients are truncated toward zero.                                    *)
(***************************************************************************)
EXTENDS Integers, Sequences, FiniteSets, TLC

VARIABLES
    fn,        \* the calculator called last ("none" before the first call)
    arg,       \* its arguments, in the order of its signature
    outcome,   \* "ok", or the exception that ended the call
    ret,       \* the tuple returned (<<>> when the call raised)
    lookups,   \* temperatures at which the call read the SI table
    file,      \* the rows of uiuc-fuel-consumption.txt after the header
    pc,        \* position of calculate.py's main: "start" or "done"
    unleaded,  \* main's per-day lists
    diesel,
    e85,
    report     \* what main prints

vars == <<fn, arg, outcome, ret, lookups, file, pc, unleaded, diesel, e85, report>>

hvars == <<fn, arg, outcome, ret, lookups>>
fvars == <<file, pc, unleaded, diesel, e85, report>>

----------------------------------------------------------------------------
(* Bounds of the model. *)

NTo == 27        \* reactor outlet temperatures 0, 50, ..., 50*NTo C
NTe == 12        \* electrolysis temperatures 0, 100, ..., 100*NTe C
NTs == 6         \* SI process temperatures 700, 750, ..., 700 + 50*NTs C
MaxDecade == 5   \* pressures up to 10^MaxDecade atm
MinDecade == 7   \* pressures down to 10^-MinDecade atm
MaxRows == 2     \* rows of the fuel file

----------------------------------------------------------------------------
(* Fixed-point arithmetic. *)

Abs(a) == IF a < 0 THEN -a ELSE a

Sgn(a) == IF a < 0 THEN -1 ELSE IF a = 0 THEN 0 ELSE 1

\* <<q, r>> with a*b = q*c + r and 0 <= r < c, for 0 <= a < c and b >= 0,
\* computed without forming a*b.
RECURSIVE MulMod(_, _, _)
MulMod(a, b, c) ==
    IF b = 0 THEN <<0, 0>>
    ELSE LET h == MulMod(a, b \div 2, c)
             t == 2 * h[2] + (b % 2) * a
         IN  <<2 * h[1] + (t \div c), t % c>>

MulDivNat(a, b, c) == (a \div c) * b + MulMod(a % c, b, c)[1]

\* a*b/c truncated toward zero, c # 0.
MulDiv(a, b, c) == Sgn(a) * Sgn(b) * Sgn(c) * MulDivNat(Abs(a), Abs(b), Abs(c))

----------------------------------------------------------------------------
(* Scales and outcomes. *)

TempScale == 10 * 10                \* 1/100 C
MolarScale == 100 * 100             \* 1/10000 kJ/mol
SpecificScale == 100 * 100          \* 1/10000 kWh/kg-H2
UnitScale == 1000 * 1000            \* efficiency, gamma, mass-flow proxy

Ok(v, lk) == [outcome |-> "ok", ret |-> v, lookups |-> lk]

Raise(e) == [outcome |-> e, ret |-> <<>>, lookups |-> {}]

----------------------------------------------------------------------------
(* np.interp(x, xp, fp): linear interpolation over the breakpoints xp,     *)
(* clamped to fp's ends outside them.  The segment is the last j with      *)
(* xp[j] <= x, so a duplicated breakpoint resolves to its second entry.    *)

Segment(x, xp) ==
    CHOOSE j \in 1..Len(xp) :
        /\ xp[j] <= x
        /\ \A i \in (j + 1)..Len(xp) : xp[i] > x

\* Mutant: the interpolation starts from the segment's right end.
interp_right_end(x, xp, fp) ==
    LET n == Len(xp) IN
    IF x > xp[n] THEN fp[n]
    ELSE IF x < xp[1] THEN fp[1]
    ELSE LET j == Segment(x, xp) IN
         IF j = n THEN fp[j]
         ELSE fp[j + 1] + MulDiv(fp[j + 1] - fp[j], x - xp[j], xp[j + 1] - xp[j])

interp(x, xp, fp) ==
    LET n == Len(xp) IN
    IF x > xp[n] THEN fp[n]
    ELSE IF x < xp[1] THEN fp[1]
    ELSE LET j == Segment(x, xp) IN
         IF j = n THEN fp[j]
         ELSE IF xp[j] = x THEN fp[j]
         ELSE fp[j] + MulDiv(fp[j + 1] - fp[j], x - xp[j], xp[j + 1] - xp[j])

----------------------------------------------------------------------------
(* hydro-requirement/hydrogen.py *)

efficiencyRaises(th) == th + 273 * TempScale = 0

efficiency(th) ==
    LET tc == (27 + 273) * TempScale
        thK == th + 273 * TempScale
    IN  MulDiv(680000, thK - tc, thK)

temp ==
   << 2500, 5000, 7500, 10000, 12500, 15000, 17500, 20000, 22500, 24256,
      24256, 25000, 27500, 30000, 32500, 35000, 37500, 40000, 42500, 45000,
      47500, 50000, 52500, 55000, 57500, 60000, 62500, 65000, 67500, 70000,
      72500, 75000, 77500, 80000, 82500, 85000, 87500, 90000, 92500, 95000,
      97500, 100000 >>

ent ==
   << 19468, 38255, 57076, 75974, 95000, 114230, 133740, 153680, 174210,
      189120, 504900, 509770, 524000, 536570, 548230, 559350, 570120,
      580660, 591060, 601360, 611600, 621820, 632030, 642250, 652490,
      662760, 673060, 683410, 693810, 704260, 714770, 725340, 735970,
      746660, 757420, 768250, 779140, 790090, 801120, 812210, 823370,
      834590 >>

delta_H(Tout, Tin) == interp(Tout, temp, ent) - interp(Tin, temp, ent)

lte_prod_rate(P, eta) ==
    IF eta = 0 THEN Raise("ZeroDivisionError")
    ELSE LET see == MulDiv(60 * SpecificScale, UnitScale, eta)
             pr == MulDiv(P * 1000, SpecificScale, see)
         IN  Ok(<<pr, see>>, {})

dg_T == <<225 * MolarScale, 165 * MolarScale>>

tds_T == <<17 * MolarScale, 99 * MolarScale>>

temp_hte == <<100 * TempScale, 1200 * TempScale>>

\* np.log(P) for P = 10^p, in 1/1000000.
log(p) == p * 2302585

\* R*(Te+273)*np.log(P)/1e3 with R = 8.314, in 1/10000 kJ/mol.
PressureTerm(p, Te) ==
    MulDiv((8314 * (Te + 273 * TempScale)) \div 1000, log(p), 10000000)

\* Mutant: the pressure correction of tds has the wrong sign.
hte_req_plus(P, Te) ==
    LET dh == interp(Te, temp_hte, dg_T) + interp(Te, temp_hte, tds_T)
        tds == interp(Te, temp_hte, tds_T) + PressureTerm(P, Te)
        dg == dh - tds
    IN  <<dg, tds>>

hte_req(P, Te) ==
    LET dh == interp(Te, temp_hte, dg_T) + interp(Te, temp_hte, tds_T)
        tds == interp(Te, temp_hte, tds_T) - PressureTerm(P, Te)
        dg == dh - tds
    IN  <<dg, tds>>

\* Pth/(2*1.008*3.6): kJ/mol to kWh/kg-H2.
PerKg(Pth) == MulDiv(Pth, 10000, 72576)

\* Mutant: gamma is taken against the thermal share, not the total.
hte_power_req_share(P, To) ==
    LET Te == (97 * To) \div 100
        eta == efficiency(Te)
        req == hte_req(P, Te)
        etagammaPth == req[1]
        gammacPth == req[2] + delta_H(243 * TempScale, 242 * TempScale)
        gammaPth == MulDiv(etagammaPth, UnitScale, eta)
        Pth == gammaPth + gammacPth
        gamma == MulDiv(gammaPth, UnitScale, gammacPth)
    IN  <<PerKg(Pth), gamma>>

hte_power_req(P, To) ==
    LET Te == (97 * To) \div 100
        eta == efficiency(Te)
        req == hte_req(P, Te)
        etagammaPth == req[1]
        gammacPth == req[2] + delta_H(243 * TempScale, 242 * TempScale)
        gammaPth == MulDiv(etagammaPth, UnitScale, eta)
        Pth == gammaPth + gammacPth
        gamma == MulDiv(gammaPth, UnitScale, Pth)
    IN  <<PerKg(Pth), gamma>>

\* With Pt = 0 no branch binds gamma, and the return statement reads it.
hte_prod_rate(Pt, p, To) ==
    IF Pt # 0
    THEN LET r == hte_power_req(p, To)
             pth == r[1]
             pr == MulDiv(Pt * 1000, SpecificScale, pth)
         IN  Ok(<<pr, pth, r[2]>>, {})
    ELSE Raise("UnboundLocalError")

\* Mutant: the vaporization energy is left out.
hte2_power_req_novap(P, To, Te) ==
    LET Tr == (97 * To) \div 100
        eta == efficiency(Tr)
        dH == hte_req(P, Te)[2] - hte_req(P, Tr)[2]
        etagammaPth == hte_req(P, Te)[1] + MulDiv(95, dH, 100)
        gammacPth == hte_req(P, Tr)[2]
        gammaPth == MulDiv(etagammaPth, UnitScale, eta)
        Pth == gammaPth + gammacPth
        gamma == MulDiv(gammaPth, UnitScale, Pth)
    IN  <<PerKg(Pth), gamma>>

hte2_power_req(P, To, Te) ==
    LET Tr == (97 * To) \div 100
        eta == efficiency(Tr)
        dH == hte_req(P, Te)[2] - hte_req(P, Tr)[2]
        etagammaPth == hte_req(P, Te)[1] + MulDiv(95, dH, 100)
        gammacPth == hte_req(P, Tr)[2]
                     + delta_H(243 * TempScale, 242 * TempScale)
        gammaPth == MulDiv(etagammaPth, UnitScale, eta)
        Pth == gammaPth + gammacPth
        gamma == MulDiv(gammaPth, UnitScale, Pth)
    IN  <<PerKg(Pth), gamma>>

hte2_prod_rate(Pt, p, To, Te) ==
    IF Pt # 0
    THEN LET r == hte2_power_req(p, To, Te)
             pth == r[1]
             pr == MulDiv(Pt * 1000, SpecificScale, pth)
         IN  Ok(<<pr, pth, r[2]>>, {})
    ELSE Raise("UnboundLocalError")

temp_si == <<75000, 80000, 85000, 90000, 95000, 100000>>

sel == <<600, 400, 300, 265, 245, 230>>

\* 1e3/3600 * np.array(sel)
se == [i \in 1..Len(sel) |-> MulDiv(sel[i], 1000 * SpecificScale, 3600)]

\* Mutant: the precondition is tested on To instead of Ts.
si_prod_rate_To(P, To) ==
    LET Ts == (97 * To) \div 100 IN
    IF To >= 750 * TempScale
    THEN LET pth == interp(Ts, temp_si, se)
             pr == MulDiv(P * 1000, SpecificScale, pth)
         IN  Ok(<<pr, pth>>, {Ts})
    ELSE Raise("SystemExit")

si_prod_rate(P, To) ==
    LET Ts == (97 * To) \div 100 IN
    IF Ts >= 750 * TempScale
    THEN LET pth == interp(Ts, temp_si, se)
             pr == MulDiv(P * 1000, SpecificScale, pth)
         IN  Ok(<<pr, pth>>, {Ts})
    ELSE Raise("SystemExit")

\* Mutant: the operands of the thermal share are swapped.
si2_power_req_swapped(eta, To, Ts) ==
    LET Tr == (97 * To) \div 100 IN
    IF Ts >= 750 * TempScale
    THEN LET dHsi == interp(Ts, temp_si, se)
             mdot == MulDiv(interp(Tr, temp_si, se), UnitScale,
                            delta_H(Tr, 170 * TempScale))
             dHboost == PerKg(MulDiv(mdot, delta_H(Ts, Tr), UnitScale))
             gammacPth == dHboost - dHsi
         IN  IF eta = 0 THEN Raise("ZeroDivisionError")
             ELSE LET gammaPth == MulDiv(MulDiv(dHboost, UnitScale, eta),
                                         100, 95)
                      Pth == gammaPth + gammacPth
                      gamma == MulDiv(gammaPth, UnitScale, Pth)
                  IN  Ok(<<Pth, gamma>>, {Ts, Tr})
    ELSE Raise("SystemExit")

si2_power_req(eta, To, Ts) ==
    LET Tr == (97 * To) \div 100 IN
    IF Ts >= 750 * TempScale
    THEN LET dHsi == interp(Ts, temp_si, se)
             mdot == MulDiv(interp(Tr, temp_si, se), UnitScale,
                            delta_H(Tr, 170 * TempScale))
             dHboost == PerKg(MulDiv(mdot, delta_H(Ts, Tr), UnitScale))
             gammacPth == dHsi - dHboost
         IN  IF eta = 0 THEN Raise("ZeroDivisionError")
             ELSE LET gammaPth == MulDiv(MulDiv(dHboost, UnitScale, eta),
                                         100, 95)
                      Pth == gammaPth + gammacPth
                      gamma == MulDiv(gammaPth, UnitScale, Pth)
                  IN  Ok(<<Pth, gamma>>, {Ts, Tr})
    ELSE Raise("SystemExit")

si2_prod_rate(P, To, Ts) ==
    IF efficiencyRaises(To) THEN Raise("ZeroDivisionError")
    ELSE LET r == si2_power_req(efficiency(To), To, Ts) IN
         IF r.outcome # "ok" THEN r
         ELSE LET pth == r.ret[1]
                  pr == MulDiv(P * 1000, SpecificScale, pth)
              IN  Ok(<<pr, pth, r.ret[2]>>, r.lookups)

----------------------------------------------------------------------------
(* calculate.py *)

\* Mutant: February has 29 days.
End_leap(mo) ==
    IF mo = 4 \/ mo = 6 \/ mo = 9 \/ mo = 11 THEN 31
    ELSE IF mo = 2 THEN 30
    ELSE 32

\* The bound `end` of main's inner loop, for da in range(1, end).
End(mo) ==
    IF mo = 4 \/ mo = 6 \/ mo = 9 \/ mo = 11 THEN 31
    ELSE IF mo = 2 THEN 29
    ELSE 32

\* The (mo, da) pairs main's two loops visit from month mo on, in order.
RECURSIVE Calendar(_)
Calendar(mo) ==
    IF mo >= 13 THEN <<>>
    ELSE [da \in 1..(End(mo) - 1) |-> <<mo, da>>] \o Calendar(mo + 1)

\* round(s/n, 2) on 1/1000 gallon: the nearest multiple of 10, ties to even.
Round2Ratio(s, n) ==
    LET q == s \div (10 * n)
        r == s % (10 * n)
    IN  IF 2 * r < 10 * n THEN 10 * q
        ELSE IF 2 * r > 10 * n THEN 10 * (q + 1)
        ELSE IF q % 2 = 0 THEN 10 * q
        ELSE 10 * (q + 1)

Round2(x) == Round2Ratio(x, 1)

\* Mutant: a later row of the same day replaces the earlier ones.
RECURSIVE DaySum_replace(_, _, _, _, _)
DaySum_replace(rows, from, mo, da, col) ==
    IF from > Len(rows) THEN 0
    ELSE LET rest == DaySum_replace(rows, from + 1, mo, da, col)
             later == \E i \in (from + 1)..Len(rows) :
                          rows[i][2] = da /\ rows[i][1] = mo
         IN  IF rows[from][2] = da /\ rows[from][1] = mo /\ ~later
             THEN rows[from][col] ELSE rest

\* main's innermost loop over the rows i >= from: the sum of column col of
\* the rows dated (mo, da).
RECURSIVE DaySum(_, _, _, _, _)
DaySum(rows, from, mo, da, col) ==
    IF from > Len(rows) THEN 0
    ELSE (IF rows[from][2] = da /\ rows[from][1] = mo
          THEN rows[from][col] ELSE 0)
         + DaySum(rows, from + 1, mo, da, col)

\* One of the lists unleaded, diesel, e85 after the loops.
PerDay(rows, col) ==
    LET cal == Calendar(1) IN
    [k \in 1..Len(cal) |-> Round2(DaySum(rows, 1, cal[k][1], cal[k][2], col))]

\* sum(xs[lo..hi]); the halving keeps the evaluation shallow.
RECURSIVE SumRange(_, _, _)
SumRange(xs, lo, hi) ==
    IF lo > hi THEN 0
    ELSE IF lo = hi THEN xs[lo]
    ELSE LET mid == (lo + hi) \div 2
         IN  SumRange(xs, lo, mid) + SumRange(xs, mid + 1, hi)

sum(xs) == SumRange(xs, 1, Len(xs))

Totals(u, d, e) ==
    [total_unleaded |-> Round2(sum(u)),
     total_diesel   |-> Round2(sum(d)),
     total_e85      |-> Round2(sum(e)),
     avg_unleaded   |-> Round2Ratio(sum(u), Len(u)),
     avg_diesel     |-> Round2Ratio(sum(d), Len(d)),
     avg_e85        |-> Round2Ratio(sum(e), Len(e))]

----------------------------------------------------------------------------
(* The caller of the calculators: the call is drawn from the grids, and    *)
(* one step runs it to its return or to the exception that ends it.        *)

ToGrid == {50 * TempScale * k : k \in 0..NTo}
              \cup {-27300, 2000, 77300, 77400}

TeGrid == {100 * TempScale * k : k \in 0..NTe}

TsGrid == {700 * TempScale + 50 * TempScale * k : k \in 0..NTs} \cup {74900}

Powers == {0, 100}

Decades == (0 - MinDecade)..MaxDecade

\* The values efficiency() returns on the grid, and at 27 C.
EtaGrid == {efficiency(t) : t \in {t \in ToGrid : ~efficiencyRaises(t)}}
               \cup {efficiency(2700)}

Tables == [ent   |-> [xp |-> temp, fp |-> ent],
           se    |-> [xp |-> temp_si, fp |-> se],
           dg_T  |-> [xp |-> temp_hte, fp |-> dg_T],
           tds_T |-> [xp |-> temp_hte, fp |-> tds_T]]

Breakpoints(t) == {Tables[t].xp[i] : i \in 1..Len(Tables[t].xp)}

Calls ==
    {<<"interp", <<t, x>>>> :
        t \in DOMAIN Tables, x \in UNION {Breakpoints(u) : u \in DOMAIN Tables}
                                     \cup TeGrid}
    \cup {<<"hte_req", <<p, Te>>>> : p \in Decades, Te \in TeGrid}
    \cup {<<"lte_prod_rate", <<P, eta>>>> : P \in Powers, eta \in EtaGrid}
    \cup {<<"hte_prod_rate", <<Pt, p, To>>>> :
             Pt \in Powers, p \in Decades, To \in ToGrid}
    \cup {<<"hte2_prod_rate", <<Pt, p, To, Te>>>> :
             Pt \in Powers, p \in Decades, To \in ToGrid, Te \in TeGrid}
    \cup {<<"hte2_prod_rate", <<Pt, p, To, (97 * To) \div 100>>>> :
             Pt \in Powers, p \in Decades, To \in ToGrid}
    \cup {<<"si_prod_rate", <<P, To>>>> : P \in Powers, To \in ToGrid}
    \cup {<<"si2_prod_rate", <<P, To, Ts>>>> :
             P \in Powers, To \in ToGrid \cup {2700}, Ts \in TsGrid}

NoFuel ==
    /\ file = <<>>
    /\ pc = "idle"
    /\ unleaded = <<>>
    /\ diesel = <<>>
    /\ e85 = <<>>
    /\ report = <<>>

Init ==
    /\ \E c \in Calls : fn = c[1] /\ arg = c[2]
    /\ outcome = "pending"
    /\ ret = <<>>
    /\ lookups = {}
    /\ NoFuel

CallInterp ==
    /\ fn = "interp" /\ outcome = "pending"
    /\ outcome' = "ok"
    /\ ret' = <<interp(arg[2], Tables[arg[1]].xp, Tables[arg[1]].fp)>>
    /\ UNCHANGED <<fn, arg, lookups, fvars>>

CallHteReq ==
    /\ fn = "hte_req" /\ outcome = "pending"
    /\ outcome' = "ok"
    /\ ret' = hte_req(arg[1], arg[2])
    /\ UNCHANGED <<fn, arg, lookups, fvars>>

CallLte ==
    /\ fn = "lte_prod_rate" /\ outcome = "pending"
    /\ \E r \in {lte_prod_rate(arg[1], arg[2])} :
           outcome' = r.outcome /\ ret' = r.ret /\ lookups' = r.lookups
    /\ UNCHANGED <<fn, arg, fvars>>

CallHte ==
    /\ fn = "hte_prod_rate" /\ outcome = "pending"
    /\ \E r \in {hte_prod_rate(arg[1], arg[2], arg[3])} :
           outcome' = r.outcome /\ ret' = r.ret /\ lookups' = r.lookups
    /\ UNCHANGED <<fn, arg, fvars>>

CallHte2 ==
    /\ fn = "hte2_prod_rate" /\ outcome = "pending"
    /\ \E r \in {hte2_prod_rate(arg[1], arg[2], arg[3], arg[4])} :
           outcome' = r.outcome /\ ret' = r.ret /\ lookups' = r.lookups
    /\ UNCHANGED <<fn, arg, fvars>>

CallSi ==
    /\ fn = "si_prod_rate" /\ outcome = "pending"
    /\ \E r \in {si_prod_rate(arg[1], arg[2])} :
           outcome' = r.outcome /\ ret' = r.ret /\ lookups' = r.lookups
    /\ UNCHANGED <<fn, arg, fvars>>

CallSi2 ==
    /\ fn = "si2_prod_rate" /\ outcome = "pending"
    /\ \E r \in {si2_prod_rate(arg[1], arg[2], arg[3])} :
           outcome' = r.outcome /\ ret' = r.ret /\ lookups' = r.lookups
    /\ UNCHANGED <<fn, arg, fvars>>

Next ==
    \/ CallInterp
    \/ CallHteReq
    \/ CallLte
    \/ CallHte
    \/ CallHte2
    \/ CallSi
    \/ CallSi2

Spec == Init /\ [][Next]_vars

----------------------------------------------------------------------------
(* The fuel report: the input file is drawn from the rows below, and one   *)
(* step runs main.                                                         *)

\* month, day, unleaded, diesel, e85.  February 29 and 31 and April 31 are
\* no days of main's calendar; 12.344 and 0.004 are no multiples of 0.01.
Rows ==
    {<<mo, da, q[1], q[2], q[3]>> :
        mo \in {2, 4, 12}, da \in {1, 29, 31},
        q \in {<<250000, 1000, 10>>, <<12344, 0, 4>>}}

Files == UNION {[1..n -> Rows] : n \in 0..MaxRows}

NoCall ==
    /\ fn = "none"
    /\ arg = <<>>
    /\ outcome = "none"
    /\ ret = <<>>
    /\ lookups = {}

InitFuel ==
    /\ file \in Files
    /\ pc = "start"
    /\ unleaded = <<>>
    /\ diesel = <<>>
    /\ e85 = <<>>
    /\ report = <<>>
    /\ NoCall

Main ==
    /\ pc = "start"
    /\ unleaded' = PerDay(file, 3)
    /\ diesel' = PerDay(file, 4)
    /\ e85' = PerDay(file, 5)
    /\ report' = Totals(unleaded', diesel', e85')
    /\ pc' = "done"
    /\ UNCHANGED <<file, hvars>>

NextFuel == Main

SpecFuel == InitFuel /\ [][NextFuel]_vars

----------------------------------------------------------------------------
(* Properties. *)

Returned == outcome # "pending" /\ outcome # "none"

\* The reactor-exit (or derived process) temperature 0.97*To.
Exit(To) == (97 * To) \div 100

InHteRange(T) == 100 * TempScale <= T /\ T <= 1200 * TempScale

InSiRange(T) == 750 * TempScale <= T /\ T <= 1000 * TempScale

\* C1: hte_prod_rate(0, p, T) and hte2_prod_rate(0, p, To, Te) return
\* normally, with production rate 0 and specific energy 0.
C1_ZeroPowerReturns ==
    (fn \in {"hte_prod_rate", "hte2_prod_rate"} /\ Returned /\ arg[1] = 0)
        => (outcome = "ok" /\ ret[1] = 0 /\ ret[2] = 0)

\* si_prod_rate(P, To) exits exactly when 0.97*To < 750 and otherwise
\* returns (P/pth*1000, pth), pth the lookup of the SI table at 0.97*To.
SiPolicy ==
    (fn = "si_prod_rate" /\ Returned) =>
        LET Ts == Exit(arg[2])
            pth == interp(Ts, temp_si, se)
        IN  /\ outcome = "SystemExit" <=> Ts < 750 * TempScale
            /\ outcome # "SystemExit" =>
                   /\ outcome = "ok"
                   /\ ret = <<MulDiv(arg[1] * 1000, SpecificScale, pth), pth>>

\* C2 as claimed: si_prod_rate as in SiPolicy, and si2_prod_rate(P, To, Ts)
\* exits exactly when Ts < 750 and returns a result otherwise.
C2_ErrorExactlyBelow750 ==
    /\ SiPolicy
    /\ (fn = "si2_prod_rate" /\ Returned) =>
           /\ outcome = "SystemExit" <=> arg[3] < 750 * TempScale
           /\ outcome # "SystemExit" => outcome = "ok"

\* C2 amended: si_prod_rate as in SiPolicy; si2_prod_rate(P, To, Ts) ends
\* in a division by zero when To = -273 C (inside efficiency, before Ts is
\* looked at) or when Ts >= 750 and To = 27 C (eta = 0), exits when
\* Ts < 750 and To # -273 C, and returns a result in every other case.
C2_ErrorPolicy ==
    /\ SiPolicy
    /\ (fn = "si2_prod_rate" /\ Returned) =>
           LET To == arg[2]
               Ts == arg[3]
               zero == To = -27300 \/ (Ts >= 750 * TempScale /\ To = 2700)
           IN  /\ outcome = "ZeroDivisionError" <=> zero
               /\ outcome = "SystemExit" <=>
                      (Ts < 750 * TempScale /\ To # -27300)
               /\ outcome = "ok" <=> (Ts >= 750 * TempScale /\ ~zero)

C2_Witness ==
    /\ fn = "si2_prod_rate"
    /\ arg[2] = 2700
    /\ arg[3] = 800 * TempScale
    /\ outcome = "ZeroDivisionError"

\* C3: a call of si_prod_rate or si2_prod_rate that returns a result has
\* read the SI table only at temperatures >= 750 C.
C3_LookupsAtLeast750 ==
    (fn \in {"si_prod_rate", "si2_prod_rate"} /\ outcome = "ok")
        => \A t \in lookups : t >= 750 * TempScale

GammaInUnit(g) == 0 <= g /\ g <= UnitScale

\* C4 as claimed: gamma is in [0, 1] for thermal power > 0, any pressure
\* > 0, and temperatures in the table ranges, Ts and 0.97*To independent.
C4_GammaInUnit ==
    /\ (fn = "hte_prod_rate" /\ outcome = "ok" /\ arg[1] > 0
           /\ InHteRange(Exit(arg[3])))
        => GammaInUnit(ret[3])
    /\ (fn = "hte2_prod_rate" /\ outcome = "ok" /\ arg[1] > 0
           /\ InHteRange(Exit(arg[3])) /\ InHteRange(arg[4]))
        => GammaInUnit(ret[3])
    /\ (fn = "si2_prod_rate" /\ outcome = "ok" /\ arg[1] > 0
           /\ InSiRange(Exit(arg[2])) /\ InSiRange(arg[3]))
        => GammaInUnit(ret[3])

\* Pressures from 10^-5 to 10^4 atm.
ModeratePressure(p) == -5 <= p /\ p <= 4

\* C4 amended: gamma is in [0, 1] for thermal power > 0, temperatures in
\* the table ranges, pressure from 10^-5 to 10^4 atm for the HTE variants,
\* and, for SI-boosted, a process temperature Ts not below 0.97*To.
C4_GammaInUnitModerate ==
    /\ (fn = "hte_prod_rate" /\ outcome = "ok" /\ arg[1] > 0
           /\ ModeratePressure(arg[2]) /\ InHteRange(Exit(arg[3])))
        => GammaInUnit(ret[3])
    /\ (fn = "hte2_prod_rate" /\ outcome = "ok" /\ arg[1] > 0
           /\ ModeratePressure(arg[2])
           /\ InHteRange(Exit(arg[3])) /\ InHteRange(arg[4]))
        => GammaInUnit(ret[3])
    /\ (fn = "si2_prod_rate" /\ outcome = "ok" /\ arg[1] > 0
           /\ InSiRange(Exit(arg[2])) /\ InSiRange(arg[3])
           /\ arg[3] >= Exit(arg[2]))
        => GammaInUnit(ret[3])

C4_Witness ==
    /\ fn = "si2_prod_rate"
    /\ outcome = "ok"
    /\ arg[1] > 0
    /\ InSiRange(Exit(arg[2]))
    /\ InSiRange(arg[3])
    /\ arg[3] > Exit(arg[2])
    /\ 0 < ret[3] /\ ret[3] < UnitScale

\* The sum of column col over all rows of the input file.
RECURSIVE ColumnSum(_, _, _)
ColumnSum(rows, from, col) ==
    IF from > Len(rows) THEN 0
    ELSE rows[from][col] + ColumnSum(rows, from + 1, col)

LossFree ==
    /\ sum(unleaded) = ColumnSum(file, 1, 3)
    /\ sum(diesel) = ColumnSum(file, 1, 4)
    /\ sum(e85) = ColumnSum(file, 1, 5)

\* C5 as claimed: for every input file the per-day values of each fuel add
\* up to the sum of that fuel's column over all rows.
C5_LossFree == pc = "done" => LossFree

\* The rows are dated within main's calendar and carry multiples of 0.01.
Regular(rows) ==
    \A i \in 1..Len(rows) :
        /\ rows[i][1] \in 1..12
        /\ rows[i][2] \in 1..(End(rows[i][1]) - 1)
        /\ \A col \in 3..5 : rows[i][col] % 10 = 0

\* C5 amended: the aggregation is loss-free for every input file whose rows
\* are all dated within the fixed 365-day calendar and whose quantities
\* have at most two decimals; several rows of one day are summed.
C5_LossFreeRegular == (pc = "done" /\ Regular(file)) => LossFree

C5_Witness ==
    /\ pc = "done"
    /\ Regular(file)
    /\ Len(file) = 2
    /\ file[1][1] = file[2][1]
    /\ file[1][2] = file[2][2]
    /\ file[1][3] > 0
    /\ sum(unleaded) = 2 * file[1][3]

C7_ExactAtBreakpoints ==
    (fn = "interp" /\ outcome = "ok" /\ arg[2] \in Breakpoints(arg[1])) =>
        LET t == Tables[arg[1]] IN
        \E i \in 1..Len(t.xp) : t.xp[i] = arg[2] /\ ret[1] = t.fp[i]

C7_Witness ==
    /\ fn = "interp"
    /\ outcome = "ok"
    /\ arg = <<"ent", 24256>>
    /\ ret[1] \in {189120, 504900}

DaysOf(mo) ==
    IF mo \in {4, 6, 9, 11} THEN 30 ELSE IF mo = 2 THEN 28 ELSE 31

\* C8: main visits the months 1..12 in order with 30 days for months 4, 6,
\* 9, 11, 28 for month 2 and 31 otherwise, 365 days in all; each per-day
\* list has one value per day, and each average is the list's sum over 365.
C8_Calendar365 ==
    pc = "done" =>
        LET cal == Calendar(1) IN
        /\ Len(cal) = 365
        /\ \A mo \in 1..12 :
               Cardinality({k \in 1..Len(cal) : cal[k][1] = mo}) = DaysOf(mo)
        /\ \A k \in 1..(Len(cal) - 1) :
               \/ cal[k + 1] = <<cal[k][1], cal[k][2] + 1>>
               \/ cal[k + 1] = <<cal[k][1] + 1, 1>>
        /\ cal[1] = <<1, 1>>
        /\ Len(unleaded) = 365 /\ Len(diesel) = 365 /\ Len(e85) = 365
        /\ report.avg_unleaded = Round2Ratio(sum(unleaded), 365)
        /\ report.avg_diesel = Round2Ratio(sum(diesel), 365)
        /\ report.avg_e85 = Round2Ratio(sum(e85), 365)

C8_Witness ==
    /\ pc = "done"
    /\ Len(file) = 2
    /\ file[1][2] = 29
    /\ Len(unleaded) = 365
    /\ report.avg_unleaded > 0

\* C9 as claimed: hte_req returns dg as the interpolated Gibbs energy,
\* independent of the pressure, and only tds carries the correction.
C9_DgIndependentOfPressure ==
    (fn = "hte_req" /\ outcome = "ok") =>
        /\ ret[1] = interp(arg[2], temp_hte, dg_T)
        /\ ret[2] = interp(arg[2], temp_hte, tds_T)
                        - PressureTerm(arg[1], arg[2])

\* C9 amended: tds is the interpolated entropy term minus
\* R*(Te+273)*ln(P)/1000 and dg is the interpolated Gibbs energy plus the
\* same correction, so that dg + tds does not depend on the pressure; dg
\* is the interpolated value itself at 1 atm.
C9_DgCarriesCorrection ==
    (fn = "hte_req" /\ outcome = "ok") =>
        /\ ret[1] = interp(arg[2], temp_hte, dg_T)
                        + PressureTerm(arg[1], arg[2])
        /\ ret[2] = interp(arg[2], temp_hte, tds_T)
                        - PressureTerm(arg[1], arg[2])
        /\ arg[1] = 0 => ret[1] = interp(arg[2], temp_hte, dg_T)

C9_Witness ==
    /\ fn = "hte_req"
    /\ outcome = "ok"
    /\ arg = <<2, 800 * TempScale>>
    /\ ret[1] > interp(arg[2], temp_hte, dg_T)

\* C10: with Te = 0.97*To the boosted HTE calculator returns what the
\* plain one returns.
C10_BoostedReducesToPlain ==
    (fn = "hte2_prod_rate" /\ Returned /\ arg[4] = Exit(arg[3])) =>
        LET plain == hte_prod_rate(arg[1], arg[2], arg[3]) IN
        /\ outcome = plain.outcome
        /\ ret = plain.ret
        /\ arg[1] # 0 => <<ret[2], ret[3]>> = hte_power_req(arg[2], arg[3])

C10_Witness ==
    /\ fn = "hte2_prod_rate"
    /\ outcome = "ok"
    /\ arg = <<100, 1, 850 * TempScale, Exit(850 * TempScale)>>
    /\ ret[2] > 0

====
